---- MODULE Spec2Model ----
(***************************************************************************)
(* Sandbox lifecycle manager of k8s-simulator (backend server).            *)
(*                                                                         *)
(* The repository holds two builds of the server: the one in               *)
(* src/backend/src/server.js (creates clusters with `kind`) and the one in *)
(* src/unnamed/part_000 (creates clusters with `k3d`).  They share the     *)
(* Registry, the admission guard, the validator and the Sweeper and differ *)
(* in createCluster and in what POST /sandbox does when the cookie's       *)
(* cluster is not listed.  The variable `build` selects the build; every   *)
(* property is checked for both.                                           *)
(*                                                                         *)
(* A handler is a sequence of atomic steps: JavaScript runs a handler      *)
(* without interruption up to its next `await`, so there is one action per *)
(* arrival of a request and one per return of an awaited call.  The        *)
(* Cluster Driver (kind / k3d / kubectl) is a set of existing cluster      *)
(* names; each call of it may fail.  Time is a counter of clock ticks; the *)
(* lifetime is a number of ticks.                                          *)
(***************************************************************************)
EXTENDS Integers, FiniteSets

\* ------------------------------------------------------------- bounds
NumClients == 2      \* client identities (req.ip), each with one cookie jar
NumRequests == 2     \* requests that can be in flight at the same time
NumSweeps == 1       \* Sweeper passes that can be running at the same time
MaxIds == 2          \* sandbox ids generateId hands out
MaxTime == 2         \* last clock tick
NumOutputs == 2      \* different texts kubectl can print

\* ------------------------------------------------------------- constants
\* server.js:16, in clock ticks instead of milliseconds
SANDBOX_LIFETIME_MS == 1

Clients == 1..NumClients
Requests == 1..NumRequests
Sweeps == 1..NumSweeps
Ids == 1..MaxIds
NoId == 0            \* no cookie / no sandbox id
Keep == -1           \* the response carries no Set-Cookie for sandboxId
Builds == {"kind", "k3d"}
NoClient == 0        \* no request has generated the id
StdOuts == 1..NumOutputs   \* the texts kubectl can print on standard output
Undefined == 0       \* JavaScript's undefined: the key is left out of the JSON

VARIABLES
  build,          \* which build of the server runs
  now,            \* Date.now()
  clusters,       \* the Cluster Driver's existing clusters (names)
  sandboxes,      \* the Registry: Map sandboxId -> createdAt, in insertion order
  inserted,       \* number of insertions into the Map so far (Map order)
  creationLocks,  \* Map clientIp -> true, as the set of its keys
  nextId,         \* the next id generateId returns
  cookies,        \* each client's cookie jar: its sandboxId cookie
  req,            \* the requests: one record per request slot
  sweep,          \* the Sweeper passes: one record per pass slot
  deleteCalls,    \* history: driver deletes that completed for each id
  owner           \* history: the client on whose request each id was generated

vars == <<build, now, clusters, sandboxes, inserted, creationLocks, nextId,
          cookies, req, sweep, deleteCalls, owner>>

\* ------------------------------------------------------------- Registry
\* Map.prototype.delete: no-op when the key is absent
RegistryDelete(reg, id) == {e \in reg : e.id # id}

\* Map.prototype.set of a new key: appended at the end of the iteration order
RegistrySet(reg, id, t, seq) ==
  RegistryDelete(reg, id) \cup {[id |-> id, createdAt |-> t, seq |-> seq]}

RegistryIds(reg) == {e.id : e \in reg}

\* ------------------------------------------------------------- requests
IdleRequest ==
  [kind |-> "none", client |-> 1, cookie |-> NoId, command |-> FALSE,
   pc |-> "idle", sandboxId |-> NoId, status |-> 0, setCookie |-> Keep,
   admitted |-> FALSE, stdout |-> Undefined, output |-> Undefined]

\* a slot is free when no request uses it; a new request takes the first one
Free(r) == req[r].pc = "idle"
FirstFree(r) == Free(r) /\ \A q \in Requests : q < r => ~Free(q)

\* creation requests that may still ask generateId for an id
MayGenerate == {q \in Requests : req[q].kind = "create" /\ req[q].pc = "list"}

\* the model's bound on ids: a creation request arrives only while generateId
\* has an id left for it and for every creation request still before its own
RoomToCreate == nextId + Cardinality(MayGenerate) <= MaxIds

\* res.json / res.status(..).json: the response is written; 'finish' follows
\* (the request's cookie and body are not read again and are dropped)
Respond(rec, status) ==
  [rec EXCEPT !.pc = "responded", !.status = status, !.cookie = NoId,
              !.command = FALSE,
              !.sandboxId = IF rec.kind = "create" THEN rec.sandboxId ELSE NoId]

\* a Sweeper pass that is not running
IdleSweep ==
  [pc |-> "idle", now |-> 0, cursor |-> 0, sandboxId |-> NoId, createdAt |-> 0]

\* ------------------------------------------------------------- driver
\* outcomes of `k3d cluster list`: the call may fail whatever the clusters are
ListOutcomes(id) ==
  {"error"} \cup (IF id \in clusters THEN {"found"} ELSE {"absent"})

\* ------------------------------------------------------------- Init
Init ==
  /\ build \in Builds
  /\ now = 0
  /\ clusters = {}
  /\ sandboxes = {}
  /\ inserted = 0
  /\ creationLocks = {}
  /\ nextId = 1
  /\ cookies = [c \in Clients |-> NoId]
  /\ req = [r \in Requests |-> IdleRequest]
  /\ sweep = [s \in Sweeps |-> IdleSweep]
  /\ deleteCalls = [i \in Ids |-> 0]
  /\ owner = [i \in Ids |-> NoClient]

\* ------------------------------------------------------------- POST /sandbox
\* mutants of the guard: no check of the lock; one lock for every client
AdmitAlways(c) == TRUE
AdmitAnyLock(c) == creationLocks = {}

\* preventConcurrentRequests, line 82: the guard lets the request through
Admit(c) == c \notin creationLocks

\* lines 146-147: a fresh id, then createCluster up to its first await
\* (generateId draws 10 random characters; the model hands out fresh ids)
StartCreate(rec) ==
  [rec EXCEPT !.sandboxId = nextId,
              !.pc = IF build = "kind" THEN "write" ELSE "create"]

\* a POST /sandbox request of client c arrives: the guard, then the handler
\* up to its first await
PostSandbox(r, c) ==
  /\ FirstFree(r)
  /\ RoomToCreate
  /\ LET new == [IdleRequest EXCEPT !.kind = "create", !.client = c,
                                    !.cookie = cookies[c]]
     IN IF ~Admit(c)
        THEN \* 429: returns before res.on('finish') is registered
             /\ req' = [req EXCEPT ![r] = Respond(new, 429)]
             /\ UNCHANGED <<creationLocks, nextId, owner>>
        ELSE /\ creationLocks' = creationLocks \cup {c}
             /\ IF new.cookie # NoId
                THEN /\ req' = [req EXCEPT ![r] =
                                  [new EXCEPT !.admitted = TRUE, !.pc = "list"]]
                     /\ UNCHANGED <<nextId, owner>>
                ELSE /\ req' = [req EXCEPT ![r] =
                                  StartCreate([new EXCEPT !.admitted = TRUE])]
                     /\ nextId' = nextId + 1
                     /\ owner' = [owner EXCEPT ![nextId] = c]
  /\ UNCHANGED <<build, now, clusters, sandboxes, inserted, cookies, sweep,
                 deleteCalls>>

\* the handler's catch after the list call: the cookie's sandbox is dropped
\* (kind build: whenever the call rejects; k3d build: only when it throws)
DropsBinding(out) ==
  IF build = "kind" THEN out \in {"absent", "error"} ELSE out = "error"

\* `k3d cluster list` of the POST /sandbox handler returns
PostListReturn(r, out) ==
  /\ req[r].kind = "create" /\ req[r].pc = "list"
  /\ out \in ListOutcomes(req[r].cookie)
  /\ LET seen == req[r]
     IN IF out = "found"
        THEN /\ req' = [req EXCEPT ![r] =
                          Respond([seen EXCEPT !.sandboxId = req[r].cookie], 200)]
             /\ UNCHANGED <<sandboxes, nextId, owner>>
        ELSE /\ sandboxes' = IF DropsBinding(out)
                             THEN RegistryDelete(sandboxes, req[r].cookie)
                             ELSE sandboxes
             /\ req' = [req EXCEPT ![r] =
                          StartCreate([seen EXCEPT !.setCookie =
                             IF DropsBinding(out) THEN NoId ELSE Keep])]
             /\ nextId' = nextId + 1
             /\ owner' = [owner EXCEPT ![nextId] = req[r].client]
  /\ UNCHANGED <<build, now, clusters, inserted, creationLocks, cookies, sweep,
                 deleteCalls>>

\* the catch of createCluster and of the handler: 500
CreateFailed(rec) == Respond(rec, 500)

\* kind build: fs.writeFile of the cluster config returns
CreateWriteReturn(r, ok) ==
  /\ req[r].kind = "create" /\ req[r].pc = "write"
  /\ req' = [req EXCEPT ![r] = IF ok THEN [req[r] EXCEPT !.pc = "create"]
                               ELSE CreateFailed(req[r])]
  /\ UNCHANGED <<build, now, clusters, sandboxes, inserted, creationLocks,
                 nextId, cookies, sweep, deleteCalls, owner>>

\* the driver's create (`kind create cluster` / `k3d cluster create`) returns
CreateDriverReturn(r, ok) ==
  /\ req[r].kind = "create" /\ req[r].pc = "create"
  /\ clusters' = IF ok THEN clusters \cup {req[r].sandboxId} ELSE clusters
  /\ req' = [req EXCEPT ![r] = IF ok THEN [req[r] EXCEPT !.pc = "ready"]
                               ELSE CreateFailed(req[r])]
  /\ UNCHANGED <<build, now, sandboxes, inserted, creationLocks, nextId,
                 cookies, sweep, deleteCalls, owner>>

\* mutant of createCluster: the id is registered whatever the last step did
createClusterRegistersAnyway(reg, id, ok) ==
  RegistrySet(reg, id, now, inserted + 1)

\* createCluster after its last await: sandboxes.set(sandboxId, Date.now())
\* when every step succeeded, nothing when the step threw
createCluster(reg, id, ok) ==
  IF ok THEN RegistrySet(reg, id, now, inserted + 1) ELSE reg

\* the last await of createCluster returns (kind build: fs.unlink; k3d build:
\* the 10 s sleep and `kubectl wait`); then sandboxes.set, res.cookie, res.json
CreateReadyReturn(r, ok) ==
  /\ req[r].kind = "create" /\ req[r].pc = "ready"
  /\ sandboxes' = createCluster(sandboxes, req[r].sandboxId, ok)
  /\ inserted' = IF ok THEN inserted + 1 ELSE inserted
  /\ req' = [req EXCEPT ![r] =
               IF ok
               THEN Respond([req[r] EXCEPT !.setCookie = req[r].sandboxId], 200)
               ELSE CreateFailed(req[r])]
  /\ UNCHANGED <<build, now, clusters, creationLocks, nextId, cookies, sweep,
                 deleteCalls, owner>>

\* ------------------------------------------------------------- responses
\* mutant of the 'finish' handler: every response's finish removes the lock
ReleaseOnFinishAlways(rec) == creationLocks \ {rec.client}

\* the 'finish' handler of preventConcurrentRequests, lines 89-91
ReleaseOnFinish(rec) ==
  IF rec.admitted THEN creationLocks \ {rec.client} ELSE creationLocks

\* the response is handed to the network: 'finish' is emitted and the client
\* applies the response's Set-Cookie
Finish(r) ==
  /\ req[r].pc = "responded"
  /\ creationLocks' = ReleaseOnFinish(req[r])
  /\ cookies' = IF req[r].setCookie = Keep THEN cookies
                ELSE [cookies EXCEPT ![req[r].client] = req[r].setCookie]
  /\ req' = [req EXCEPT ![r] = IdleRequest]
  /\ UNCHANGED <<build, now, clusters, sandboxes, inserted, nextId, sweep,
                 deleteCalls, owner>>

\* the connection of a creation request was closed before the response could
\* be sent: the response emits 'close', never 'finish', and the client
\* receives nothing (creation responses are the only ones with a 'finish'
\* listener)
Close(r) ==
  /\ req[r].pc = "responded" /\ req[r].admitted
  /\ req' = [req EXCEPT ![r] = IdleRequest]
  /\ UNCHANGED <<build, now, clusters, sandboxes, inserted, creationLocks,
                 nextId, cookies, sweep, deleteCalls, owner>>

\* ------------------------------------------------------------- validateSandbox
\* a POST /sandbox/exec or DELETE /sandbox request of client c arrives:
\* validateSandbox up to its await (401 without a cookie)
Validated(r, c, kind, command) ==
  /\ FirstFree(r)
  /\ LET new == [IdleRequest EXCEPT !.kind = kind, !.client = c,
                                    !.cookie = cookies[c], !.command = command,
                                    !.sandboxId = cookies[c]]
     IN req' = [req EXCEPT ![r] = IF new.cookie = NoId THEN Respond(new, 401)
                                  ELSE [new EXCEPT !.pc = "validate"]]
  /\ UNCHANGED <<build, now, clusters, sandboxes, inserted, creationLocks,
                 nextId, cookies, sweep, deleteCalls, owner>>

PostExec(r, c, command) == Validated(r, c, "exec", command)

DeleteSandbox(r, c) == Validated(r, c, "delete", FALSE)

\* mutant of validateSandbox: next() whatever the list call returned
PassesAlways(out) == TRUE

\* validateSandbox calls next(): the list call found the cluster
Passes(out) == out = "found"

\* the route handler up to its first await, run by next()
Handle(rec) ==
  IF rec.kind = "exec"
  THEN IF ~rec.command THEN Respond(rec, 400) ELSE [rec EXCEPT !.pc = "exec"]
  ELSE [rec EXCEPT !.pc = "delete"]

\* mutant of the catch of validateSandbox: the cookie is not cleared
RejectedKeepsCookie(rec) == Respond(rec, 404)

\* the catch of validateSandbox: clearCookie, sandboxes.delete, 404
Rejected(rec) == Respond([rec EXCEPT !.setCookie = NoId], 404)

\* `k3d cluster list` of validateSandbox returns
ValidateReturn(r, out) ==
  /\ req[r].pc = "validate"
  /\ out \in ListOutcomes(req[r].cookie)
  /\ LET seen == req[r]
     IN IF Passes(out)
        THEN /\ req' = [req EXCEPT ![r] = Handle(seen)]
             /\ UNCHANGED sandboxes
        ELSE /\ req' = [req EXCEPT ![r] = Rejected(seen)]
             /\ sandboxes' = RegistryDelete(sandboxes, req[r].cookie)
  /\ UNCHANGED <<build, now, clusters, inserted, creationLocks, nextId,
                 cookies, sweep, deleteCalls, owner>>

\* ------------------------------------------------------------- POST /sandbox/exec
\* executeKubectlCommand, line 123: returns result.stdout, the text itself
executeKubectlCommand(text) == text

\* the `output` of the response.  kind build, line 181: result.stdout, where
\* result is the text executeKubectlCommand returned, and a string has no
\* property stdout; k3d build, part_000 line 208: the text
ExecOutput(result) == IF build = "kind" THEN Undefined ELSE result

\* `kubectl --context ...` returns in executeKubectlCommand, printing `text`
\* when it succeeds; then res.json, or 500 from the catch
ExecReturn(r, ok, text) ==
  /\ req[r].kind = "exec" /\ req[r].pc = "exec"
  /\ req' = [req EXCEPT ![r] =
               IF ok
               THEN Respond([req[r] EXCEPT
                               !.stdout = text,
                               !.output = ExecOutput(executeKubectlCommand(text))],
                            200)
               ELSE Respond(req[r], 500)]
  /\ UNCHANGED <<build, now, clusters, sandboxes, inserted, creationLocks,
                 nextId, cookies, sweep, deleteCalls, owner>>

\* ------------------------------------------------------------- deleteCluster
\* the driver's delete of a name: deleting a name that does not exist succeeds
DriverDelete(cl, id) == cl \ {id}

\* mutant of deleteCluster: the Registry entry is left in place
deleteClusterKeepsEntry(reg, id) == reg

\* deleteCluster after its driver call succeeded: sandboxes.delete(sandboxId)
deleteCluster(reg, id) == RegistryDelete(reg, id)

Bump(n) == IF n < 2 THEN n + 1 ELSE n

\* ------------------------------------------------------------- DELETE /sandbox
\* deleteCluster's driver call returns in the DELETE /sandbox handler
DeleteReturn(r, ok) ==
  /\ req[r].kind = "delete" /\ req[r].pc = "delete"
  /\ IF ok
     THEN /\ clusters' = DriverDelete(clusters, req[r].sandboxId)
          /\ sandboxes' = deleteCluster(sandboxes, req[r].sandboxId)
          /\ deleteCalls' = [deleteCalls EXCEPT ![req[r].sandboxId] = Bump(@)]
          /\ req' = [req EXCEPT ![r] =
                       Respond([req[r] EXCEPT !.setCookie = NoId], 200)]
     ELSE /\ req' = [req EXCEPT ![r] = Respond(req[r], 500)]
          /\ UNCHANGED <<clusters, sandboxes, deleteCalls>>
  /\ UNCHANGED <<build, now, inserted, creationLocks, nextId, cookies, sweep,
                 owner>>

\* ------------------------------------------------------------- Sweeper
\* mutants of the expiry test: the lifetime on the wrong side; one tick late
ExpiredWrongSide(n, createdAt) == n + SANDBOX_LIFETIME_MS > createdAt
ExpiredLate(n, createdAt) == n - createdAt > SANDBOX_LIFETIME_MS + 1

\* line 26: the entry is past its lifetime
Expired(n, createdAt) == n - createdAt > SANDBOX_LIFETIME_MS

\* the entries a Map iterator at `cursor` has still to visit
Pending(reg, cursor) == {e \in reg : e.seq > cursor}

\* mutant of the for loop: the pass ends when a deleteCluster call has returned
AdvanceAborts(pass, reg, cursor) ==
  LET due == {e \in Pending(reg, cursor) : Expired(pass.now, e.createdAt)}
  IN IF due = {} \/ cursor > 0
     THEN IdleSweep
     ELSE LET e == CHOOSE x \in due : \A y \in due : x.seq <= y.seq
          IN [pass EXCEPT !.pc = "deleting", !.cursor = e.seq,
                          !.sandboxId = e.id, !.createdAt = e.createdAt]

\* the for loop from `cursor` up to its next await: entries that are not
\* expired are passed over; at the first expired one deleteCluster is called;
\* the loop ends when the iterator is exhausted
Advance(pass, reg, cursor) ==
  LET due == {e \in Pending(reg, cursor) : Expired(pass.now, e.createdAt)}
  IN IF due = {}
     THEN IdleSweep
     ELSE LET e == CHOOSE x \in due : \A y \in due : x.seq <= y.seq
          IN [pass EXCEPT !.pc = "deleting", !.cursor = e.seq,
                          !.sandboxId = e.id, !.createdAt = e.createdAt]

\* cron fires cleanupExpiredSandboxes: now = Date.now(), then the loop
cleanupExpiredSandboxes(s) ==
  /\ sweep[s].pc = "idle"
  /\ sweep' = [sweep EXCEPT ![s] =
                 Advance([sweep[s] EXCEPT !.now = now],
                         sandboxes, 0)]
  /\ UNCHANGED <<build, now, clusters, sandboxes, inserted, creationLocks,
                 nextId, cookies, req, deleteCalls, owner>>

\* deleteCluster's driver call returns in the Sweeper: on success the entry is
\* removed (lines 73 and 29); on failure the error is logged; the loop goes on
SweepDeleteReturn(s, ok) ==
  /\ sweep[s].pc = "deleting"
  /\ LET id == sweep[s].sandboxId
         reg == IF ok THEN RegistryDelete(deleteCluster(sandboxes, id), id)
                ELSE sandboxes
     IN /\ sandboxes' = reg
        /\ clusters' = IF ok THEN DriverDelete(clusters, id) ELSE clusters
        /\ deleteCalls' = IF ok THEN [deleteCalls EXCEPT ![id] = Bump(@)]
                          ELSE deleteCalls
        /\ sweep' = [sweep EXCEPT ![s] = Advance(sweep[s], reg, sweep[s].cursor)]
  /\ UNCHANGED <<build, now, inserted, creationLocks, nextId, cookies, req,
                 owner>>

\* ------------------------------------------------------------- clock
Tick ==
  /\ now < MaxTime
  /\ now' = now + 1
  /\ UNCHANGED <<build, clusters, sandboxes, inserted, creationLocks, nextId,
                 cookies, req, sweep, deleteCalls, owner>>

Next ==
  \/ \E r \in Requests, c \in Clients : PostSandbox(r, c)
  \/ \E r \in Requests, out \in {"found", "absent", "error"} : PostListReturn(r, out)
  \/ \E r \in Requests, ok \in BOOLEAN : CreateWriteReturn(r, ok)
  \/ \E r \in Requests, ok \in BOOLEAN : CreateDriverReturn(r, ok)
  \/ \E r \in Requests, ok \in BOOLEAN : CreateReadyReturn(r, ok)
  \/ \E r \in Requests, c \in Clients, command \in BOOLEAN : PostExec(r, c, command)
  \/ \E r \in Requests, c \in Clients : DeleteSandbox(r, c)
  \/ \E r \in Requests, out \in {"found", "absent", "error"} : ValidateReturn(r, out)
  \/ \E r \in Requests, ok \in BOOLEAN, text \in StdOuts : ExecReturn(r, ok, text)
  \/ \E r \in Requests, ok \in BOOLEAN : DeleteReturn(r, ok)
  \/ \E s \in Sweeps : cleanupExpiredSandboxes(s)
  \/ \E s \in Sweeps, ok \in BOOLEAN : SweepDeleteReturn(s, ok)
  \/ \E r \in Requests : Finish(r)
  \/ \E r \in Requests : Close(r)
  \/ Tick

Spec == Init /\ [][Next]_vars

\* ============================================================= properties
InFlight(r) == req[r].pc # "idle"
DriverStages == {"list", "write", "create", "ready"}

\* the creation requests of client c that are past the admission guard
PastGuard(c) ==
  {r \in Requests : InFlight(r) /\ req[r].kind = "create" /\
                    req[r].client = c /\ req[r].admitted}

\* C1 - admission mutual exclusion: at most one creation request of a client
\* is past the guard at a time and the client's lock is held meanwhile; only
\* a request past the guard is at a driver call; a denied request (429) has
\* generated no id and is at no driver call
C1_AdmissionMutualExclusion ==
  /\ \A c \in Clients :
       /\ Cardinality(PastGuard(c)) <= 1
       /\ PastGuard(c) # {} => c \in creationLocks
  /\ \A r \in Requests :
       /\ (req[r].kind = "create" /\ req[r].pc \in DriverStages) => req[r].admitted
       /\ req[r].status = 429 =>
            ~req[r].admitted /\ req[r].sandboxId = NoId /\ req[r].pc = "responded"

\* a creation request is creating its cluster while another creation request
\* of the same client has been denied
C1_Witness ==
  \E r, q \in Requests :
     /\ req[r].kind = "create" /\ req[r].admitted /\ req[r].pc = "create"
     /\ req[q].kind = "create" /\ req[q].client = req[r].client
     /\ req[q].status = 429

\* C2 - admission lock release: a lock is never held with no creation request
\* of its client in flight
C2_LockNeverDangling ==
  \A c \in creationLocks : PastGuard(c) # {}

\* C3 - reuse idempotence: a creation request whose cookie names a sandbox
\* that is live in the driver answers 200 with that sandbox id, generates no
\* id (so calls no driver create) and leaves the Registry unchanged
C3_ReuseIdempotent ==
  [][\A r \in Requests :
       (req[r].kind = "create" /\ req[r].pc = "list" /\ req'[r] # req[r] /\
        req[r].cookie \in clusters)
       => /\ req'[r].pc = "responded" /\ req'[r].status = 200
          /\ req'[r].sandboxId = req[r].cookie
          /\ nextId' = nextId
          /\ sandboxes' = sandboxes]_vars

\* C4 - no early sweep: a Sweeper pass calls the driver's delete only for an
\* entry of the Registry whose createdAt + lifetime is not after the pass's
\* `now`, and a step of the pass removes no Registry entry and no cluster
\* of a sandbox younger than that
C4_NoEarlySweep ==
  [][\A s \in Sweeps : sweep'[s] # sweep[s] =>
       /\ sweep'[s].pc = "deleting" =>
            \E e \in sandboxes' :
               /\ e.id = sweep'[s].sandboxId
               /\ e.createdAt = sweep'[s].createdAt
               /\ sweep'[s].now >= e.createdAt + SANDBOX_LIFETIME_MS
       /\ \A e \in sandboxes \ sandboxes' :
            sweep[s].now >= e.createdAt + SANDBOX_LIFETIME_MS
       /\ \A x \in clusters \ clusters' :
            /\ x = sweep[s].sandboxId
            /\ sweep[s].now >= sweep[s].createdAt + SANDBOX_LIFETIME_MS]_vars

\* a pass is deleting an expired sandbox while the Registry holds a sandbox
\* that is younger than the lifetime at the pass's `now`
C4_Witness ==
  \E s \in Sweeps, e \in sandboxes :
     /\ sweep[s].pc = "deleting" /\ e.id # sweep[s].sandboxId
     /\ sweep[s].now < e.createdAt + SANDBOX_LIFETIME_MS

\* the stretch of the for loop a pass runs next in this state, on Registry
\* `reg`: from the start when cron fires it, from its cursor when its driver
\* call returns
LoopResult(s, reg) ==
  IF sweep[s].pc = "idle" THEN Advance([sweep[s] EXCEPT !.now = now], reg, 0)
  ELSE Advance(sweep[s], reg, sweep[s].cursor)

\* the entries of `reg` that stretch visits
LoopVisits(s, reg) ==
  LET from == IF sweep[s].pc = "idle" THEN 0 ELSE sweep[s].cursor
      res == LoopResult(s, reg)
  IN {e \in reg : e.seq > from /\ (res.pc = "deleting" => e.seq <= res.cursor)}

\* the Registry a pass iterates next: as it is when cron fires the pass; with
\* or without the entry of the sandbox being deleted when the call returns
LoopRegistries(s) ==
  IF sweep[s].pc = "idle" THEN {sandboxes}
  ELSE {sandboxes, RegistryDelete(sandboxes, sweep[s].sandboxId)}

PassNow(s) == IF sweep[s].pc = "idle" THEN now ELSE sweep[s].now

\* C5 as claimed - expiry eligibility: every entry a pass visits with
\* `now` >= createdAt + lifetime is selected: the pass calls the driver's
\* delete for it
C5_SelectsAtLifetime ==
  \A s \in Sweeps : \A reg \in LoopRegistries(s) : \A e \in LoopVisits(s, reg) :
     PassNow(s) >= e.createdAt + SANDBOX_LIFETIME_MS
     => /\ LoopResult(s, reg).pc = "deleting"
        /\ LoopResult(s, reg).sandboxId = e.id

\* C5 as amended: every entry a pass visits with `now` > createdAt + lifetime
\* is selected: the pass calls the driver's delete for it
C5_SelectsPastLifetime ==
  \A s \in Sweeps : \A reg \in LoopRegistries(s) : \A e \in LoopVisits(s, reg) :
     PassNow(s) > e.createdAt + SANDBOX_LIFETIME_MS
     => /\ LoopResult(s, reg).pc = "deleting"
        /\ LoopResult(s, reg).sandboxId = e.id

\* a pass has selected a sandbox past its lifetime and is deleting it
C5_Witness ==
  \E s \in Sweeps, e \in sandboxes :
     /\ sweep[s].pc = "deleting" /\ e.id = sweep[s].sandboxId
     /\ sweep[s].now > e.createdAt + SANDBOX_LIFETIME_MS

\* C6 - the Registry holds no entry for an id whose deletion (deleteCluster,
\* from DELETE /sandbox or from the Sweeper) has completed
C6_DeletedNotRegistered ==
  \A e \in sandboxes : deleteCalls[e.id] = 0

\* an explicit deletion has completed while another sandbox is registered
C6_Witness ==
  \E r \in Requests :
     /\ req[r].kind = "delete" /\ req[r].pc = "responded" /\ req[r].status = 200
     /\ \E i \in Ids : deleteCalls[i] > 0
     /\ sandboxes # {}

\* the steps a DELETE /sandbox request r takes on the server for sandbox id x
DeleteStepFor(r, x) ==
  /\ req'[r] # req[r]
  /\ \/ req[r].pc = "idle" /\ req'[r].kind = "delete" /\ req'[r].cookie = x
     \/ req[r].kind = "delete" /\ req[r].pc \in {"validate", "delete"} /\
        req[r].cookie = x

\* C7 as claimed - idempotent deletion: a deletion request for an id that is
\* not in the Registry is not answered with an error and changes neither the
\* Registry nor the locks nor the driver's clusters
C7_DeleteAbsentNoError ==
  [][\A r \in Requests, x \in Ids :
       (DeleteStepFor(r, x) /\ x \notin RegistryIds(sandboxes))
       => /\ sandboxes' = sandboxes /\ creationLocks' = creationLocks
          /\ clusters' = clusters
          /\ req'[r].pc = "responded" => req'[r].status = 200]_vars

\* C7 as amended: the steps of a deletion request for an id that is neither
\* in the Registry nor in the driver change neither the Registry nor the
\* locks nor the driver's clusters; validateSandbox answers such a request
\* 404 with the cookie cleared and deleteCluster is not called
C7_DeleteGoneNotFound ==
  [][\A r \in Requests, x \in Ids :
       (DeleteStepFor(r, x) /\ x \notin RegistryIds(sandboxes) /\ x \notin clusters)
       => /\ sandboxes' = sandboxes /\ creationLocks' = creationLocks
          /\ clusters' = clusters
          /\ req[r].pc \in {"idle", "validate"} =>
               /\ req'[r].pc # "delete"
               /\ req'[r].pc = "responded" =>
                    req'[r].status = 404 /\ req'[r].setCookie = NoId]_vars

\* a deletion request for a sandbox that was deleted before has been answered
\* 404
C7_Witness ==
  \E r \in Requests :
     /\ req[r].kind = "delete" /\ req[r].pc = "responded" /\ req[r].status = 404
     /\ LET x == cookies[req[r].client]
        IN x # NoId /\ x \notin clusters /\ x \notin RegistryIds(sandboxes) /\
           deleteCalls[x] > 0

\* C8 - cross-client independence: an arriving creation request is denied
\* exactly when the lock of its own client is held, whatever other clients'
\* locks are; a creation that succeeds answers 200 with an id that no other
\* request carries, that is registered and that is set as the cookie
C8_CrossClientIndependence ==
  [][\A r \in Requests : req'[r] # req[r] =>
       /\ (req[r].pc = "idle" /\ req'[r].kind = "create")
            => /\ req'[r].status = 429 <=> req'[r].client \in creationLocks
               /\ req'[r].admitted <=> req'[r].client \notin creationLocks
       /\ (req[r].kind = "create" /\ req[r].pc = "ready" /\ req'[r].status = 200)
            => /\ req'[r].sandboxId \in RegistryIds(sandboxes')
               /\ req'[r].setCookie = req'[r].sandboxId
               /\ \A q \in Requests \ {r} :
                    req'[q].sandboxId # req'[r].sandboxId]_vars

\* two clients' creation requests, in flight together, have both succeeded
\* with distinct registered ids
C8_Witness ==
  \E r, q \in Requests :
     /\ req[r].client # req[q].client
     /\ req[r].kind = "create" /\ req[q].kind = "create"
     /\ req[r].pc = "responded" /\ req[q].pc = "responded"
     /\ req[r].status = 200 /\ req[q].status = 200
     /\ req[r].sandboxId # req[q].sandboxId
     /\ {req[r].sandboxId, req[q].sandboxId} \subseteq RegistryIds(sandboxes)
     /\ req[r].setCookie = req[r].sandboxId /\ req[q].setCookie = req[q].sandboxId

\* a cluster that no deletion path can reach: it exists in the driver, the
\* Registry has no entry for it (the Sweeper never sees it), no client holds
\* its id in a cookie and no request in flight carries its id
Leaked(x) ==
  /\ x \in clusters
  /\ x \notin RegistryIds(sandboxes)
  /\ \A c \in Clients : cookies[c] # x
  /\ \A r \in Requests :
       req[r].cookie # x /\ req[r].sandboxId # x /\ req[r].setCookie # x
  /\ \A s \in Sweeps : sweep[s].sandboxId # x

\* C9 - eventual cleanup, in the form a finite run refutes: no cluster the
\* driver created is ever beyond the reach of every deletion path
C9_NoClusterLeaked ==
  \A x \in Ids : ~Leaked(x)

\* a leaked cluster stays leaked: no step deletes it
C9_LeakedForever ==
  [][\A x \in Ids : Leaked(x) => Leaked(x)']_vars

\* C10 - destroyed exactly once: the driver's delete completes at most once
\* for every sandbox id
C10_DeletedAtMostOnce ==
  \A i \in Ids : deleteCalls[i] <= 1

\* the clusters existing in the driver that were created on requests of
\* client c
LiveOf(c) == {x \in clusters : owner[x] = c}

\* C11 - one sandbox per session: of the sandboxes created on behalf of a
\* client, at most one has a cluster existing in the driver
C11_OneSandboxPerSession ==
  \A c \in Clients : Cardinality(LiveOf(c)) <= 1

\* C12 - dead-sandbox reconciliation: when the list call of validateSandbox
\* returns for an execute or delete request whose cookie names a sandbox with
\* no cluster in the driver, the request is answered 404 with the cookie
\* cleared, the Registry has no entry for the id afterwards and the request
\* goes on to no driver execute or delete call; the client's cookie is gone
\* once the 404 response has finished
C12_DeadSandboxRejected ==
  [][\A r \in Requests : req'[r] # req[r] =>
       /\ (req[r].pc = "validate" /\ req[r].cookie \notin clusters)
            => /\ req'[r].pc = "responded" /\ req'[r].status = 404
               /\ req'[r].setCookie = NoId
               /\ req[r].cookie \notin RegistryIds(sandboxes')
               /\ clusters' = clusters /\ deleteCalls' = deleteCalls
       /\ (req[r].pc = "responded" /\ req[r].status = 404)
            => cookies'[req[r].client] = NoId]_vars

\* an execute request whose cookie names a sandbox that was deleted has been
\* answered 404 with the cookie cleared
C12_Witness ==
  \E r \in Requests :
     /\ req[r].kind = "exec" /\ req[r].pc = "responded" /\ req[r].status = 404
     /\ req[r].setCookie = NoId
     /\ LET x == cookies[req[r].client]
        IN x # NoId /\ x \notin clusters /\ deleteCalls[x] > 0

\* the step of DELETE /sandbox request r at which deleteCluster's driver call
\* returns
DeleteCallReturns(r) ==
  req[r].kind = "delete" /\ req[r].pc = "delete" /\ req'[r] # req[r]

\* C13 as claimed - unconditional cleanup on explicit deletion: whatever the
\* driver's delete reports, when it returns the Registry has no entry for
\* the sandbox and the response clears the cookie
C13_CleanupWhateverDriverReports ==
  [][\A r \in Requests : DeleteCallReturns(r) =>
       /\ req[r].sandboxId \notin RegistryIds(sandboxes')
       /\ req'[r].setCookie = NoId]_vars

\* C13 as amended: when the driver's delete succeeds (also for a cluster that
\* is already absent) the request is answered 200, the Registry has no entry
\* for the sandbox, its cluster is gone and the response clears the cookie;
\* when the driver's delete fails the request is answered 500 and the
\* Registry, the clusters and the cookie are left as they are
C13_CleanupOnDriverSuccess ==
  [][\A r \in Requests : DeleteCallReturns(r) =>
       /\ req'[r].pc = "responded" /\ req'[r].status \in {200, 500}
       /\ req'[r].status = 200 =>
            /\ req[r].sandboxId \notin RegistryIds(sandboxes')
            /\ req[r].sandboxId \notin clusters'
            /\ req'[r].setCookie = NoId
       /\ req'[r].status = 500 =>
            /\ sandboxes' = sandboxes /\ clusters' = clusters
            /\ req'[r].setCookie = Keep]_vars

\* a deletion request has been answered 200 with the cookie cleared for a
\* sandbox whose cluster was already absent when the driver's delete ran
\* (an earlier delete of it had completed)
C13_Witness ==
  \E r \in Requests :
     /\ req[r].kind = "delete" /\ req[r].pc = "responded" /\ req[r].status = 200
     /\ req[r].setCookie = NoId
     /\ LET x == cookies[req[r].client]
        IN x # NoId /\ x \notin RegistryIds(sandboxes) /\ deleteCalls[x] = 2

\* C14 - malformed input is rejected before the driver is touched: an execute
\* request without command text is never waiting for a driver call (the list
\* call of validateSandbox or kubectl)
C14_MalformedBeforeDriver ==
  \A r \in Requests :
     (req[r].kind = "exec" /\ req[r].pc \in {"validate", "exec"})
     => req[r].command

\* C15 - execute returns the driver's output: the `output` of a successful
\* execute response is the standard output kubectl printed for the command
C15_OutputIsStdout ==
  \A r \in Requests :
     (req[r].kind = "exec" /\ req[r].pc = "responded" /\ req[r].status = 200)
     => req[r].output = req[r].stdout

\* the driver's create has succeeded for id x: its cluster exists, or existed
\* and was deleted
Created(x) == x \in clusters \/ deleteCalls[x] > 0

CreationStages == {"write", "create", "ready"}

\* C16 - no partial registration: an id enters the Registry only at the step
\* at which the last step of its creation succeeds, with its cluster in the
\* driver and the request answered 200; a creation request that fails at any
\* step is answered 500 and the Registry has no entry for its id; every
\* Registry entry names a cluster the driver created
C16_NoPartialRegistration ==
  [][/\ \A x \in RegistryIds(sandboxes') \ RegistryIds(sandboxes) :
          \E r \in Requests :
             /\ req[r].kind = "create" /\ req[r].pc = "ready"
             /\ req[r].sandboxId = x /\ x \in clusters
             /\ req'[r].pc = "responded" /\ req'[r].status = 200
     /\ \A r \in Requests :
          (req[r].kind = "create" /\ req[r].pc \in CreationStages /\
           req'[r].pc = "responded" /\ req'[r].status # 200)
          => /\ req'[r].status = 500
             /\ req[r].sandboxId \notin RegistryIds(sandboxes')
     /\ \A x \in RegistryIds(sandboxes') : Created(x)']_vars

\* a creation has failed after the driver created its cluster and its id is
\* not registered, while another sandbox is registered
C16_Witness ==
  \E r \in Requests :
     /\ req[r].kind = "create" /\ req[r].pc = "responded" /\ req[r].status = 500
     /\ req[r].sandboxId \in clusters
     /\ req[r].sandboxId \notin RegistryIds(sandboxes)
     /\ sandboxes # {}

\* C17 - fail-closed creation with cleanup: a creation that has failed (500)
\* has no Registry entry for its id and has left no cluster in the driver
\* that no Registry entry tracks
C17_FailedCreationLeavesNoCluster ==
  \A r \in Requests :
     (req[r].kind = "create" /\ req[r].pc = "responded" /\ req[r].status = 500)
     => /\ req[r].sandboxId \notin RegistryIds(sandboxes)
        /\ req[r].sandboxId \notin clusters

\* C18 - token cleared exactly when dead: a create, execute or delete request
\* clears the cookie only if the cookie's sandbox has no cluster in the
\* driver (it was absent, or the request has just deleted it); and it clears
\* the cookie whenever its list call returns for a sandbox with no cluster
\* and whenever its driver delete has succeeded
C18_TokenClearedIffDead ==
  [][\A r \in Requests :
       (req'[r] # req[r] /\ req[r].pc \in {"list", "validate", "delete"})
       => /\ (req'[r].setCookie = NoId /\ req[r].setCookie # NoId)
               => req[r].cookie \notin clusters'
          /\ (req[r].pc \in {"list", "validate"} /\ req[r].cookie \notin clusters)
               => req'[r].setCookie = NoId
          /\ (req[r].pc = "delete" /\ req'[r].status = 200)
               => req'[r].setCookie = NoId]_vars

\* the step of pass s at which its deleteCluster call returns with a failure:
\* no delete has completed and no cluster is gone
SweepDeleteFails(s) ==
  /\ sweep[s].pc = "deleting" /\ sweep'[s] # sweep[s]
  /\ deleteCalls' = deleteCalls /\ clusters' = clusters

\* C19 - Sweeper failure isolation: when the driver's delete fails for an
\* entry, the entry stays in the Registry; the pass goes on, with the same
\* `now`, to the next expired entry after it, if there is one; and when the
\* pass ends with that step, a pass started right then selects an expired
\* entry at or before the failed one, so the failed entry is attempted again
C19_SweeperFailureIsolation ==
  [][\A s \in Sweeps : SweepDeleteFails(s) =>
       /\ \A e \in sandboxes : e.id = sweep[s].sandboxId =>
            /\ e \in sandboxes'
            /\ sweep'[s].pc = "idle" =>
                 LET next == Advance([sweep'[s] EXCEPT !.now = now'], sandboxes', 0)
                 IN next.pc = "deleting" /\ next.cursor <= e.seq
       /\ \A e \in sandboxes' :
            (e.seq > sweep[s].cursor /\ Expired(sweep[s].now, e.createdAt))
            => /\ sweep'[s].pc = "deleting" /\ sweep'[s].now = sweep[s].now
               /\ sweep[s].cursor < sweep'[s].cursor
               /\ sweep'[s].cursor <= e.seq]_vars

\* a pass is deleting an expired entry after the delete of an earlier expired
\* entry failed: that entry is still in the Registry, behind the cursor
C19_Witness ==
  \E s \in Sweeps, e \in sandboxes :
     /\ sweep[s].pc = "deleting" /\ e.seq < sweep[s].cursor
     /\ Expired(sweep[s].now, e.createdAt)
     /\ e.id \in clusters

\* C20 - a denied creation request changes nothing: the step that answers a
\* POST /sandbox 429 responds at once (the request is at no driver call) and
\* leaves the Registry, the clusters, the locks and the id generator as they
\* are; so does the finish of its response; and a lock is removed only by the
\* finish of the response of the request that acquired it
C20_DeniedChangesNothing ==
  [][/\ \A r \in Requests :
          (req'[r] # req[r] /\ (req'[r].status = 429 \/ req[r].status = 429))
          => /\ req[r].pc = "idle" => req'[r].pc = "responded" /\ ~req'[r].admitted
             /\ req[r].pc # "idle" => req'[r].pc = "idle"
             /\ sandboxes' = sandboxes /\ clusters' = clusters
             /\ creationLocks' = creationLocks /\ nextId' = nextId
             /\ deleteCalls' = deleteCalls
     /\ \A c \in creationLocks \ creationLocks' :
          \E r \in Requests :
             /\ req[r].admitted /\ req[r].client = c
             /\ req[r].pc = "responded" /\ req'[r].pc = "idle"]_vars

\* a creation request has been denied while the admitted request of the same
\* client, whose cluster the driver has created, still holds the lock
C20_Witness ==
  \E r, q \in Requests :
     /\ req[q].kind = "create" /\ req[q].status = 429 /\ ~req[q].admitted
     /\ req[r].kind = "create" /\ req[r].admitted /\ req[r].pc = "ready"
     /\ req[r].client = req[q].client
     /\ req[r].client \in creationLocks
     /\ req[r].sandboxId \in clusters

====
